---- MODULE Spec2Model ----
(***************************************************************************)
(* Model of tdb (src/src/tdb/cli.py): the dependency orderer               *)
(* (_toposort_tables), the integrity validator (_pk_metrics, _fk_orphans)  *)
(* and the staged bulk loader (build).  The embedded SQL engine is         *)
(* modelled by the effect of each statement the code issues: a statement  *)
(* either runs or raises and then changes nothing; a primary key rejects  *)
(* NULL and repeated values; a foreign key needs its referenced table to  *)
(* exist with the referenced column as key, accepts NULL, and keeps the   *)
(* referenced table from being dropped.                                   *)
(***************************************************************************)
EXTENDS Integers, Sequences, FiniteSets, TLC

VARIABLES
    profile,    \* prof["tables"]: table name -> [pk, fks]
    ordered,    \* _toposort_tables: the list being built
    remaining,  \* _toposort_tables: the set of tables not yet ordered
    tpc,        \* _toposort_tables: position ("idle","loop","done")
    vtable,     \* validate: the rows of the table under check (src_table)
    vref,       \* validate: the rows of the referenced table (ref_table)
    vcols,      \* validate: the key columns (pk, or fk["cols"] = fk["ref_cols"])
    vres,       \* validate: what the check returned or raised
    csv,        \* build: folder/<t>.csv for every table t of the profile
    db,         \* build: the database file: relation name -> relation
    order,      \* build: the load plan
    i,          \* build: index in `order` of the table the loop is at
    pc,         \* build: the statement about to run
    failed,     \* build: the statement that raised ("" while none has)
    metrics,    \* build: metrics_rows
    run,        \* build: which invocation of the command this is
    prev        \* build: metrics_rows of the previous invocation

topoVars == <<profile, ordered, remaining, tpc>>

valVars == <<vtable, vref, vcols, vres>>

buildVars == <<csv, db, order, i, pc, failed, metrics, run, prev>>

vars == <<topoVars, valVars, buildVars>>

----------------------------------------------------------------------------
(* Bounds *)

\* largest number of foreign keys a table of a generated profile declares
MaxFks == 1

\* largest number of rows of a table handed to the validator
MaxRows == 3

\* largest number of rows of the referenced table handed to the validator
MaxRefRows == 1

\* largest number of rows of a source CSV file
MaxCsvRows == 2

\* number of times the build command is invoked on the same database file
MaxRuns == 2

----------------------------------------------------------------------------
(* SQL values *)

\* SQL NULL, None in Python
NULL == "NULL"

Vals == {"1", "2"}

\* the columns of a table handed to the validator
ColNames == {"id", "grp"}

Rows == [ColNames -> Vals \cup {NULL}]

\* the sequences over S of length at most n
SeqsUpTo(S, n) == UNION {[1..k -> S] : k \in 0..n}

\* the value of an aggregate: <<>> for NULL, <<k>> for the number k
SqlNull == <<>>

SqlInt(k) == <<k>>

\* no check has run; a check returns [raised |-> "", ...] or raises
NoResult == [raised |-> "unset"]

----------------------------------------------------------------------------
(* _pk_metrics *)

\* the key of a row: its values in the key columns, in order
KeyOf(row, cols) == [k \in 1..Len(cols) |-> row[cols[k]]]

\* COUNT(*)
CountStar(rows) == Len(rows)

\* lines 92-96: COUNT(DISTINCT c) skips NULL; COUNT(DISTINCT (c1, c2)) counts
\* row values, and a row value with a NULL field is itself not NULL
CountDistinct(rows, cols) ==
    IF Len(cols) > 1
    THEN Cardinality({KeyOf(rows[k], cols) : k \in 1..Len(rows)})
    ELSE Cardinality({rows[k][cols[1]] : k \in 1..Len(rows)} \ {NULL})

\* line 98: c1 IS NULL OR c2 IS NULL ...
NullCond(row, cols) == \E k \in 1..Len(cols) : row[cols[k]] = NULL

\* line 104: SUM(cond) is NULL over no rows, else the number of rows where cond
SumNullCond(rows, cols) ==
    IF Len(rows) = 0 THEN SqlNull
    ELSE SqlInt(Cardinality({k \in 1..Len(rows) : NullCond(rows[k], cols)}))

\* lines 108-116: int(None) raises TypeError
PkMetrics(rows, cols) ==
    LET n          == CountStar(rows)
        distinct_n == CountDistinct(rows, cols)
        null_n     == SumNullCond(rows, cols)
        dup_n      == CountStar(rows) - CountDistinct(rows, cols)
    IN  IF null_n = SqlNull
        THEN [raised |-> "TypeError"]
        ELSE [raised |-> "", n |-> n, distinct |-> distinct_n,
              null |-> null_n[1], dup |-> dup_n]

----------------------------------------------------------------------------
(* _fk_orphans *)

\* line 124: r.rc = s.sc AND ...; a comparison with NULL is not true
OnCond(s, r, s_cols, r_cols) ==
    \A k \in 1..Len(s_cols) :
        /\ k <= Len(r_cols)
        /\ s[s_cols[k]] # NULL
        /\ r[r_cols[k]] # NULL
        /\ r[r_cols[k]] = s[s_cols[k]]

\* line 125: the rows the LEFT JOIN yields for source row s that pass
\* WHERE r.<first ref col> IS NULL: the padded row when nothing matches,
\* else the matching rows whose first referenced column is NULL
JoinedNullRows(s, ref, s_cols, r_cols) ==
    LET matches == {j \in 1..Len(ref) : OnCond(s, ref[j], s_cols, r_cols)}
    IN  IF matches = {} THEN 1
        ELSE Cardinality({j \in matches : ref[j][r_cols[1]] = NULL})

RECURSIVE SumOver(_, _, _, _, _)
SumOver(src, k, ref, s_cols, r_cols) ==
    IF k = 0 THEN 0
    ELSE JoinedNullRows(src[k], ref, s_cols, r_cols)
         + SumOver(src, k - 1, ref, s_cols, r_cols)

\* lines 119-130
FkOrphans(src, s_cols, ref, r_cols) ==
    [raised |-> "", orphans |-> SumOver(src, Len(src), ref, s_cols, r_cols)]

----------------------------------------------------------------------------
(* validate: one check of one table *)

\* _toposort_tables is not running
TopoIdle ==
    /\ ordered = <<>>
    /\ remaining = {}
    /\ tpc = "idle"

KeyChoices == {<<"id">>, <<"id", "grp">>}

\* build is not running
BuildIdle ==
    /\ csv = <<>>
    /\ db = <<>>
    /\ order = <<>>
    /\ i = 0
    /\ pc = "idle"
    /\ failed = ""
    /\ metrics = <<>>
    /\ run = 0
    /\ prev = <<>>

\* validate is not running
ValIdle ==
    /\ vtable = <<>>
    /\ vref = <<>>
    /\ vcols = <<>>
    /\ vres = NoResult

PkInit ==
    /\ profile = <<>>
    /\ TopoIdle
    /\ BuildIdle
    /\ vtable \in SeqsUpTo(Rows, MaxRows)
    /\ vref = <<>>
    /\ vcols \in KeyChoices
    /\ vres = NoResult

\* line 285
PkCheck ==
    /\ vres = NoResult
    /\ vres' = PkMetrics(vtable, vcols)
    /\ UNCHANGED <<topoVars, buildVars, vtable, vref, vcols>>

SpecPk == PkInit /\ [][PkCheck]_vars

FkInit ==
    /\ profile = <<>>
    /\ TopoIdle
    /\ BuildIdle
    /\ vtable \in SeqsUpTo(Rows, MaxRows)
    /\ vref \in SeqsUpTo(Rows, MaxRefRows)
    /\ vcols \in KeyChoices
    /\ vres = NoResult

\* line 287
FkCheck ==
    /\ vres = NoResult
    /\ vres' = FkOrphans(vtable, vcols, vref, vcols)
    /\ UNCHANGED <<topoVars, buildVars, vtable, vref, vcols>>

SpecFk == FkInit /\ [][FkCheck]_vars

----------------------------------------------------------------------------
(* Names and their order *)

\* The table names profiles are drawn from, in the order Python's sorted()
\* puts them (str comparison by code point).
LexOrder == <<"a", "b", "stg_a", "x", "y", "z">>

Rank(n) == CHOOSE k \in 1..Len(LexOrder) : LexOrder[k] = n

\* sorted(S) for a set S of names
RECURSIVE Sorted(_)
Sorted(S) ==
    IF S = {} THEN <<>>
    ELSE LET m == CHOOSE x \in S : \A y \in S : Rank(x) <= Rank(y)
         IN  <<m>> \o Sorted(S \ {m})

Range(s) == {s[k] : k \in 1..Len(s)}

----------------------------------------------------------------------------
(* Schema profile *)

\* one entry of spec["fks"]; every generated key is on the column "id"
Fk(r) == [cols |-> <<"id">>, ref_table |-> r, ref_cols |-> <<"id">>]

\* spec.get("fks", []) for every choice of at most MaxFks referenced tables
FkChoices(targets) ==
    {{Fk(r) : r \in R} : R \in {Q \in SUBSET targets : Cardinality(Q) <= MaxFks}}

\* the profiles with tables among `names`, keys among `pks`, references among `targets`
Profiles(names, pks, targets) ==
    UNION {[T -> [pk : pks, fks : FkChoices(targets)]] : T \in SUBSET names}

----------------------------------------------------------------------------
(* _toposort_tables *)

\* deps[t]: the referenced tables of t
Deps(prof, t) == {fk.ref_table : fk \in prof[t].fks}

\* a plausible slip: the candidates are taken from all tables, not from `remaining`
ReadyFromAllTables(prof, rem, ord) ==
    {t \in DOMAIN prof : Deps(prof, t) \subseteq Range(ord)}

\* a plausible slip: the dependency test is dropped
ReadyIgnoringDeps(prof, rem, ord) == rem

\* the set sorted into `ready`
Ready(prof, rem, ord) ==
    {t \in rem : Deps(prof, t) \subseteq Range(ord)}

\* a plausible slip: the fallback appends in reverse order
FallbackReversed(rem) ==
    LET s == Sorted(rem) IN [k \in 1..Len(s) |-> s[Len(s) + 1 - k]]

\* ordered.extend(sorted(list(remaining)))
Fallback(rem) == Sorted(rem)

\* the whole function, as build calls it
RECURSIVE TopoLoop(_, _, _)
TopoLoop(prof, rem, ord) ==
    IF rem = {} THEN ord
    ELSE LET ready == Ready(prof, rem, ord)
         IN  IF ready = {} THEN ord \o Fallback(rem)
             ELSE TopoLoop(prof, rem \ ready, ord \o Sorted(ready))

Toposort(prof) == TopoLoop(prof, DOMAIN prof, <<>>)

TopoNames == {"a", "b", "x", "y"}

\* the call _toposort_tables(profile) for a profile over the tables `names`,
\* whose foreign keys may also name the table "z", which no profile holds
TopoCall(names) ==
    /\ ValIdle
    /\ BuildIdle
    /\ profile \in Profiles(names, {<<>>}, names \cup {"z"})
    /\ ordered = <<>>
    /\ remaining = {}
    /\ tpc = "idle"

TopoInit == TopoCall(TopoNames)

\* lines 70-77: tables, deps, ordered = [], remaining = set(tables)
TopoEnter ==
    /\ tpc = "idle"
    /\ ordered' = <<>>
    /\ remaining' = DOMAIN profile
    /\ tpc' = "loop"
    /\ UNCHANGED <<profile, valVars, buildVars>>

\* lines 78-79, 83-84: one iteration with a non-empty ready list
TopoRound ==
    /\ tpc = "loop"
    /\ remaining # {}
    /\ LET ready == Ready(profile, remaining, ordered)
       IN  /\ ready # {}
           /\ ordered' = ordered \o Sorted(ready)
           /\ remaining' = remaining \ ready
    /\ UNCHANGED <<profile, tpc, valVars, buildVars>>

\* lines 78-82: no table is ready: append the rest and break
TopoFallback ==
    /\ tpc = "loop"
    /\ remaining # {}
    /\ Ready(profile, remaining, ordered) = {}
    /\ ordered' = ordered \o Fallback(remaining)
    /\ tpc' = "done"
    /\ UNCHANGED <<profile, remaining, valVars, buildVars>>

\* lines 78, 85: the loop condition fails: return ordered
TopoReturn ==
    /\ tpc = "loop"
    /\ remaining = {}
    /\ tpc' = "done"
    /\ UNCHANGED <<profile, ordered, remaining, valVars, buildVars>>

TopoNext ==
    \/ TopoEnter
    \/ TopoRound
    \/ TopoFallback
    \/ TopoReturn

SpecTopo == TopoInit /\ [][TopoNext]_vars

\* the tables of the profiles the termination check runs on
FairTopoNames == {"a", "x", "y"}

FairTopoInit == TopoCall(FairTopoNames)

\* the interpreter runs the loop to its end
FairSpecTopo == FairTopoInit /\ [][TopoNext]_vars /\ WF_vars(TopoNext)

----------------------------------------------------------------------------
(* The embedded engine: the statements build issues *)

\* the staging relation's name, f"stg_{t}"
Stg(t) == "stg_" \o t

\* a database file with no relation in it
EmptyDb == [n \in {} |-> NULL]

Put(d, n, rel) == [m \in DOMAIN d \cup {n} |-> IF m = n THEN rel ELSE d[m]]

Remove(d, n) == [m \in DOMAIN d \ {n} |-> d[m]]

\* the outcome of a statement: it ran and left `d`, or it raised and left `d`
Ran(d) == [ok |-> TRUE, db |-> d]

Raised(d) == [ok |-> FALSE, db |-> d]

\* the engine refuses to drop a table another table's foreign key references
Referenced(d, n) == \E m \in DOMAIN d \ {n} : n \in d[m].fks

\* a plausible slip: the statement is not issued
DropTableSkipped(d, n) == Ran(d)

\* DROP TABLE "n"
DropTable(d, n) ==
    IF n \notin DOMAIN d \/ Referenced(d, n) THEN Raised(d)
    ELSE Ran(Remove(d, n))

\* DROP TABLE IF EXISTS "n"
DropTableIfExists(d, n) ==
    IF n \notin DOMAIN d THEN Ran(d) ELSE DropTable(d, n)

\* a plausible slip: a missing file is read as an empty one
CreateTableAsEmptyIfMissing(d, n, file) ==
    IF n \in DOMAIN d THEN Raised(d)
    ELSE Ran(Put(d, n, [kind |-> "staging", rows |-> file.rows,
                        pk |-> <<>>, fks |-> {}]))

\* CREATE TABLE "n" AS SELECT * FROM read_csv(file): raises when the file is missing
CreateTableAsReadCsv(d, n, file) ==
    IF ~file.exists \/ n \in DOMAIN d THEN Raised(d)
    ELSE Ran(Put(d, n, [kind |-> "staging", rows |-> file.rows,
                        pk |-> <<>>, fks |-> {}]))

\* PRAGMA table_info("n"): raises when there is no such relation
TableInfo(d, n) == IF n \in DOMAIN d THEN Ran(d) ELSE Raised(d)

\* CREATE TABLE "n" (cols, PRIMARY KEY (pk), FOREIGN KEY ... REFERENCES r ...):
\* every referenced table must exist and have the referenced column as its key
CreateTable(d, n, pk, fks) ==
    IF \/ n \in DOMAIN d
       \/ \E fk \in fks : \/ fk.ref_table \notin DOMAIN d
                          \/ d[fk.ref_table].pk # fk.ref_cols
    THEN Raised(d)
    ELSE Ran(Put(d, n, [kind |-> "typed", rows |-> <<>>, pk |-> pk,
                        fks |-> {fk.ref_table : fk \in fks}]))

\* a plausible slip: the key is declared UNIQUE, which lets NULL through
UniqueViolated(old, new) ==
    LET all == old \o new
    IN  \E k, l \in 1..Len(all) : k # l /\ all[k] = all[l] /\ all[k] # NULL

\* a primary key rejects a NULL and a repeated value
PkViolated(old, new) ==
    LET all == old \o new
    IN  \/ \E k \in 1..Len(all) : all[k] = NULL
        \/ \E k, l \in 1..Len(all) : k # l /\ all[k] = all[l]

\* a foreign key rejects a non-NULL value the referenced table does not hold
FkViolated(d, refs, new) ==
    \E r \in refs : \E k \in 1..Len(new) :
        /\ new[k] # NULL
        /\ \A l \in 1..Len(d[r].rows) : d[r].rows[l] # new[k]

\* INSERT INTO "n" SELECT * FROM "from": all rows or, on a violation, none
InsertSelect(d, n, from) ==
    IF n \notin DOMAIN d \/ from \notin DOMAIN d THEN Raised(d)
    ELSE LET new == d[from].rows
         IN  IF \/ (d[n].pk # <<>> /\ PkViolated(d[n].rows, new))
                \/ FkViolated(d, d[n].fks, new)
             THEN Raised(d)
             ELSE Ran(Put(d, n, [d[n] EXCEPT !.rows = d[n].rows \o new]))

\* SELECT COUNT(*) FROM "n"
CountRows(d, n) == Len(d[n].rows)

----------------------------------------------------------------------------
(* build *)

BuildNames == {"a", "b", "stg_a"}

\* the "id" column of a CSV file of n rows that all hold the value 1
CsvRows(n) == [k \in 1..n |-> "1"]

Missing == [exists |-> FALSE, rows |-> <<>>]

\* folder/<t>.csv: missing, up to MaxCsvRows rows of id 1, or one row with an
\* empty id
CsvFiles ==
    {Missing} \cup
    {[exists |-> TRUE, rows |-> CsvRows(n)] : n \in 0..MaxCsvRows} \cup
    {[exists |-> TRUE, rows |-> <<NULL>>]}

\* the profiles build is run on: no table references itself
BuildProfiles ==
    {p \in Profiles(BuildNames, {<<>>, <<"id">>}, BuildNames) :
        \A t \in DOMAIN p : t \notin Deps(p, t)}

BuildInit ==
    /\ TopoIdle
    /\ ValIdle
    /\ profile \in BuildProfiles
    /\ csv \in [DOMAIN profile -> CsvFiles]
    /\ db = EmptyDb
    /\ order = <<>>
    /\ i = 0
    /\ pc = "start"
    /\ failed = ""
    /\ metrics = <<>>
    /\ run = 1
    /\ prev = <<>>

\* a plausible slip: the old database file is kept
KeepFile(d) == d

\* line 329: db.unlink(missing_ok=True), then a fresh connection
Unlink(d) == EmptyDb

\* the statement at `pc` raised: the exception ends the command
Abort ==
    /\ pc' = "error"
    /\ failed' = pc
    /\ UNCHANGED <<db, i, metrics>>

\* lines 325-332
BuildStart ==
    /\ pc = "start"
    /\ order' = Toposort(profile)
    /\ db' = Unlink(db)
    /\ metrics' = <<>>
    /\ i' = 1
    /\ pc' = IF Toposort(profile) = <<>> THEN "done" ELSE "stg_drop"
    /\ UNCHANGED <<failed, csv, run, prev, topoVars, valVars>>

\* line 340
StgDrop ==
    /\ pc = "stg_drop"
    /\ LET r == DropTableIfExists(db, Stg(order[i]))
       IN  IF r.ok
           THEN /\ db' = r.db
                /\ pc' = "stg_create"
                /\ UNCHANGED <<i, metrics, failed>>
           ELSE Abort
    /\ UNCHANGED <<order, csv, run, prev, topoVars, valVars>>

\* lines 341-349, and the step of the first loop
StgCreate ==
    /\ pc = "stg_create"
    /\ LET stg == Stg(order[i])
           r   == CreateTableAsReadCsv(db, stg, csv[order[i]])
       IN  IF r.ok
           THEN /\ db' = r.db
                /\ metrics' = Append(metrics,
                                  [table |-> stg, rows |-> CountRows(r.db, stg)])
                /\ i' = IF i < Len(order) THEN i + 1 ELSE 1
                /\ pc' = IF i < Len(order) THEN "stg_drop" ELSE "cols"
                /\ UNCHANGED failed
           ELSE Abort
    /\ UNCHANGED <<order, csv, run, prev, topoVars, valVars>>

\* lines 353-378
TblCols ==
    /\ pc = "cols"
    /\ LET r == TableInfo(db, Stg(order[i]))
       IN  IF r.ok
           THEN /\ pc' = "tbl_drop"
                /\ UNCHANGED <<db, i, metrics, failed>>
           ELSE Abort
    /\ UNCHANGED <<order, csv, run, prev, topoVars, valVars>>

\* line 381
TblDrop ==
    /\ pc = "tbl_drop"
    /\ LET r == DropTableIfExists(db, order[i])
       IN  IF r.ok
           THEN /\ db' = r.db
                /\ pc' = "tbl_create"
                /\ UNCHANGED <<i, metrics, failed>>
           ELSE Abort
    /\ UNCHANGED <<order, csv, run, prev, topoVars, valVars>>

\* line 382
TblCreate ==
    /\ pc = "tbl_create"
    /\ LET t == order[i]
           r == CreateTable(db, t, profile[t].pk, profile[t].fks)
       IN  IF r.ok
           THEN /\ db' = r.db
                /\ pc' = "tbl_insert"
                /\ UNCHANGED <<i, metrics, failed>>
           ELSE Abort
    /\ UNCHANGED <<order, csv, run, prev, topoVars, valVars>>

\* line 383
TblInsert ==
    /\ pc = "tbl_insert"
    /\ LET r == InsertSelect(db, order[i], Stg(order[i]))
       IN  IF r.ok
           THEN /\ db' = r.db
                /\ pc' = "stg_discard"
                /\ UNCHANGED <<i, metrics, failed>>
           ELSE Abort
    /\ UNCHANGED <<order, csv, run, prev, topoVars, valVars>>

\* lines 384-387, and the step of the second loop
StgDiscard ==
    /\ pc = "stg_discard"
    /\ LET t == order[i]
           r == DropTable(db, Stg(t))
       IN  IF r.ok
           THEN /\ db' = r.db
                /\ metrics' = Append(metrics,
                                  [table |-> t, rows |-> CountRows(r.db, t)])
                /\ i' = IF i < Len(order) THEN i + 1 ELSE i
                /\ pc' = IF i < Len(order) THEN "cols" ELSE "done"
                /\ UNCHANGED failed
           ELSE Abort
    /\ UNCHANGED <<order, csv, run, prev, topoVars, valVars>>

\* the command is run again on the same database file, profile and folder
Rerun ==
    /\ pc = "done"
    /\ run < MaxRuns
    /\ run' = run + 1
    /\ prev' = metrics
    /\ pc' = "start"
    /\ UNCHANGED <<db, order, i, failed, metrics, csv, topoVars, valVars>>

BuildNext ==
    \/ BuildStart
    \/ StgDrop
    \/ StgCreate
    \/ TblCols
    \/ TblDrop
    \/ TblCreate
    \/ TblInsert
    \/ StgDiscard
    \/ Rerun

Spec == BuildInit /\ [][BuildNext]_vars

----------------------------------------------------------------------------
(* Properties of _toposort_tables *)

\* the place of table x in the returned list
Pos(x) == CHOOSE k \in 1..Len(ordered) : ordered[k] = x

\* the tables reachable from the set S along foreign keys, within the profile
RECURSIVE ReachFrom(_)
ReachFrom(S) ==
    LET next == S \cup {r \in DOMAIN profile : \E t \in S : r \in Deps(profile, t)}
    IN  IF next = S THEN S ELSE ReachFrom(next)

\* no table reaches itself along one or more foreign keys
Acyclic ==
    \A t \in DOMAIN profile :
        t \notin ReachFrom(Deps(profile, t) \cap DOMAIN profile)

\* every referenced table is a table of the profile
AllRefsDeclared ==
    \A t \in DOMAIN profile : Deps(profile, t) \subseteq DOMAIN profile

\* every referenced table of the profile comes before the table that references it
RefsFirst ==
    \A t \in DOMAIN profile :
        \A r \in Deps(profile, t) \cap DOMAIN profile : Pos(r) < Pos(t)

\* C1: the returned list is a permutation of the profile's table names: every
\* table exactly once and no other name, whatever the foreign keys are.
C1_Permutation ==
    tpc = "done" =>
        /\ Range(ordered) = DOMAIN profile
        /\ Len(ordered) = Cardinality(DOMAIN profile)

\* C1 witness: four tables returned for a profile with a self-reference and a
\* reference to a table that is not in the profile.
C1_Witness ==
    /\ tpc = "done"
    /\ Len(ordered) = 4
    /\ \E t \in DOMAIN profile : t \in Deps(profile, t)
    /\ \E t \in DOMAIN profile : "z" \in Deps(profile, t)

\* C2 as stated: in a profile with no foreign-key cycle every referenced table
\* of the profile comes strictly before its referencer.
C2_Original ==
    (tpc = "done" /\ Acyclic) => RefsFirst

\* C2 amended: in a profile with no foreign-key cycle and no foreign key to a
\* table absent from the profile, every referenced table comes strictly
\* before its referencer.
C2_RefsFirst ==
    /\ (tpc = "done" /\ Acyclic /\ AllRefsDeclared) => RefsFirst
    /\ ( /\ tpc = "done"
         /\ DOMAIN profile = {"a", "b"}
         /\ Deps(profile, "a") = {}
         /\ Deps(profile, "b") = {"a"} ) => ordered = <<"a", "b">>

\* C2 witness: the chain a -> b -> x, where the names sort against the order
\* the keys force.
C2_Witness ==
    /\ tpc = "done"
    /\ Acyclic
    /\ AllRefsDeclared
    /\ DOMAIN profile = {"a", "b", "x"}
    /\ Deps(profile, "a") = {"b"}
    /\ Deps(profile, "b") = {"x"}
    /\ ordered = <<"x", "b", "a">>

\* the tables a round finds ready, read off the state
ReadyNow ==
    {t \in remaining :
        \A fk \in profile[t].fks :
            \E k \in 1..Len(ordered) : ordered[k] = fk.ref_table}

\* the names a step appends
Added == SubSeq(ordered', Len(ordered) + 1, Len(ordered'))

\* one iteration of the loop does what C8 says
RoundAsClaimed ==
    (tpc = "loop" /\ remaining # {}) =>
        /\ Len(ordered') >= Len(ordered)
        /\ SubSeq(ordered', 1, Len(ordered)) = ordered
        /\ \A k, l \in 1..Len(Added) : k < l => Rank(Added[k]) < Rank(Added[l])
        /\ IF ReadyNow # {}
           THEN Range(Added) = ReadyNow /\ tpc' = "loop"
           ELSE Range(Added) = remaining /\ tpc' = "done"

\* C8: the sort terminates on every profile; each round appends the ready
\* tables in lexicographic order, and the first round with no ready table
\* appends all remaining tables in lexicographic order and stops; the mutual
\* cycle x <-> y gives [x, y].
C8_Terminates ==
    /\ <>(tpc = "done")
    /\ [][RoundAsClaimed]_vars
    /\ [](( /\ tpc = "done"
            /\ DOMAIN profile = {"x", "y"}
            /\ Deps(profile, "x") = {"y"}
            /\ Deps(profile, "y") = {"x"} ) => ordered = <<"x", "y">>)

\* C8 witness: the mutual cycle x <-> y has been sorted by the fallback.
C8_Witness ==
    /\ tpc = "done"
    /\ DOMAIN profile = {"x", "y"}
    /\ Deps(profile, "x") = {"y"}
    /\ Deps(profile, "y") = {"x"}
    /\ ordered = <<"x", "y">>

----------------------------------------------------------------------------
(* Properties of the validator *)

\* the key of row k of the table under check
VKey(k) == [c \in 1..Len(vcols) |-> vtable[k][vcols[c]]]

\* a key with no NULL in it
NonNull(key) == \A c \in 1..Len(key) : key[c] # NULL

\* the source rows C3 counts: key not null, and equal to no referenced row's key
ClaimedOrphans ==
    {k \in 1..Len(vtable) :
        /\ NonNull(VKey(k))
        /\ \A j \in 1..Len(vref) :
              [c \in 1..Len(vcols) |-> vref[j][vcols[c]]] # VKey(k)}

\* C3 as stated: the orphan count is the number of source rows whose key is
\* not null and matches no referenced row; rows with a null key are not counted.
C3_Original ==
    vres # NoResult =>
        /\ vres.raised = ""
        /\ vres.orphans = Cardinality(ClaimedOrphans)

\* the distinct key values C4 counts: as the engine counts them, a single
\* column's values without NULL, a composite key's tuples
ClaimedDistinct ==
    IF Len(vcols) = 1
    THEN {VKey(k) : k \in 1..Len(vtable)} \ {<<NULL>>}
    ELSE {VKey(k) : k \in 1..Len(vtable)}

\* C4 as stated: for every table content, the empty table included, the check
\* returns n = rows, distinct = distinct key values, null = rows with a NULL
\* in a key column, dup = n - distinct.
C4_Original ==
    vres # NoResult =>
        /\ vres.raised = ""
        /\ vres.n = Len(vtable)
        /\ vres.distinct = Cardinality(ClaimedDistinct)
        /\ vres.null = Cardinality({k \in 1..Len(vtable) : ~NonNull(VKey(k))})
        /\ vres.dup = Len(vtable) - Cardinality(ClaimedDistinct)

----------------------------------------------------------------------------
(* Properties of build *)

\* the relations of the database that are staging relations, and typed tables
StagingRels == {n \in DOMAIN db : db[n].kind = "staging"}

TypedRels == {n \in DOMAIN db : db[n].kind = "typed"}

\* the tables later, and earlier, in the plan than the one the loop is at
Later == {order[j] : j \in (i + 1)..Len(order)}

Earlier == {order[j] : j \in 1..(i - 1)}

\* the statement of the staging loop, and of the load loop, is about to run
InStagingLoop == pc \in {"stg_drop", "stg_create"}

InLoadLoop == pc \in {"cols", "tbl_drop", "tbl_create", "tbl_insert", "stg_discard"}

\* the copy of table order[i] raised
AbortedAtCopy == pc = "error" /\ failed = "tbl_insert"

\* the rows about to be copied into order[i] break its primary key or one of
\* its foreign keys
CopyViolates ==
    LET t    == order[i]
        rows == db[Stg(t)].rows
    IN  \/ /\ profile[t].pk # <<>>
           /\ \/ \E k \in 1..Len(rows) : rows[k] = NULL
              \/ \E k \in 1..Len(rows) : \E l \in (k + 1)..Len(rows) : rows[k] = rows[l]
        \/ \E fk \in profile[t].fks : \E k \in 1..Len(rows) :
               /\ rows[k] # NULL
               /\ rows[k] \notin Range(db[fk.ref_table].rows)

C6_MissingFile ==
    /\ (pc = "error" /\ failed = "stg_create") =>
          /\ ~csv[order[i]].exists
          /\ DOMAIN db = {Stg(u) : u \in Earlier}
          /\ \A u \in Earlier :
                db[Stg(u)].kind = "staging" /\ db[Stg(u)].rows = csv[u].rows
    /\ \A k \in 1..Len(order) :
          ~csv[order[k]].exists =>
              /\ pc \in {"start", "stg_drop", "stg_create", "error"}
              /\ pc # "start" => i <= k
              /\ pc = "error" => failed = "stg_create"
              /\ (InStagingLoop /\ i = k) => DOMAIN db = {Stg(u) : u \in Earlier}

\* C6 witness: the file of the second of three tables is missing and the
\* build has aborted there, after staging the first table.
C6_Witness ==
    /\ pc = "error"
    /\ failed = "stg_create"
    /\ Len(order) = 3
    /\ i = 2
    /\ Stg(order[1]) \in DOMAIN db

\* C7: a second run on the same database file, profile and CSVs completes
\* like the first, reports the same row count for every table, and leaves in
\* every relation the rows of a single file.
C7_Idempotent ==
    /\ run >= 2 => pc # "error"
    /\ (run >= 2 /\ pc = "done") =>
          /\ metrics = prev
          /\ \A n \in DOMAIN db : \E t \in DOMAIN profile : db[n].rows = csv[t].rows

\* C7 witness: the second run of a three-table profile with a foreign key and
\* loaded rows has completed.
C7_Witness ==
    /\ run = 2
    /\ pc = "done"
    /\ Len(order) = 3
    /\ \E t \in DOMAIN profile : profile[t].fks # {}
    /\ \E n \in DOMAIN db : Len(db[n].rows) = MaxCsvRows

\* C9 as stated: at every point of a run at most one staging relation exists.
C9_Original == Cardinality(StagingRels) <= 1

\* C9 amended: the build works in LoadPlan order in two passes.  While the
\* CSVs are staged, exactly the tables before the current one are staged and
\* no typed table exists; then, table by table, the typed table is created
\* and filled and its staging relation discarded before the next table's
\* typed table is created.  There are never more staging relations than tables.
C9_TwoPasses ==
    /\ Cardinality(StagingRels) <= Len(order)
    /\ InStagingLoop =>
          /\ TypedRels = {}
          /\ StagingRels = {Stg(u) : u \in Earlier}
    /\ InLoadLoop =>
          /\ TypedRels \subseteq Earlier \cup {order[i]}
          /\ StagingRels \subseteq {Stg(order[j]) : j \in i..Len(order)}
          /\ pc \in {"cols", "tbl_drop", "tbl_create"} => order[i] \notin TypedRels
    /\ pc = "done" => StagingRels = {}

\* C9 witness: the first of three tables is loaded and its staging relation
\* discarded while the two later tables are still staged.
C9_Witness ==
    /\ pc = "cols"
    /\ i = 2
    /\ Len(order) = 3
    /\ order[1] \in TypedRels
    /\ StagingRels = {Stg(order[2]), Stg(order[3])}

\* C10 as stated: a build that completes leaves exactly one typed table per
\* profile table, each with the rows of its own file, and nothing else.
C10_Original ==
    (pc = "done" /\ run = 1) =>
        /\ DOMAIN db = DOMAIN profile
        /\ \A t \in DOMAIN profile :
              db[t].kind = "typed" /\ db[t].rows = csv[t].rows

====
